---- MODULE Spec2Model ----
(***************************************************************************)
(* Model of nvidia-bert/bert_runner/bert_dataset.py: the multi-file        *)
(* loader BertMultiFileDataloader, its generator __iter__, the single-slot *)
(* process pool it prefetches shards with, and forward / reset.            *)
(*                                                                         *)
(* One consumer drives one loader.  The consumer holds at most one live    *)
(* generator; it drops the one it holds (Abandon) before it calls iter,    *)
(* forward or reset again.  The pool's worker process runs concurrently    *)
(* with the consumer and completes the queued shard loads one at a time.   *)
(***************************************************************************)
EXTENDS Integers, Sequences, FiniteSets

\* ------------------------------------------------------------------ bounds
MaxFiles == 2        \* shard files in the list: 0..MaxFiles
MaxRows == 2         \* samples in one shard: 0..MaxRows
MaxBatch == 2        \* batch_size: 1..MaxBatch
MaxCount == 2        \* forward(count): count in 0..MaxCount
MaxQueue == 2        \* cap of the loads queued in the pool and not yet completed
\* file_index grows without bound when loop: one lap of the list and a shard more.
MaxFileIndex == MaxFiles + 1
\* sample_index keeps growing across restarts within a shard: past any shard's end.
MaxSampleIndex == MaxRows + 1

VARIABLES
    files,           \* self.files: the shard list, [path, rows] per shard
    batch_size,      \* self.batch_size
    loop,            \* self.loop
    shuffle,         \* self.shuffle
    file_index,      \* self.file_index
    sample_index,    \* self.sample_index
    pool,            \* self.pool: "None" or "ProcessPoolExecutor"
    dataset,         \* self.dataset: None, a DataLoader, or Absent (attribute deleted)
    future_dataset,  \* self.future_dataset: None or a Future
    queue,           \* work submitted to self.pool that its worker has not completed
    gen,             \* the consumer's generator: where __iter__ is suspended
    pos,             \* batches the running `for batch in self.dataset` has yielded
    batch,           \* the batch handed to the consumer by the last yield
    fwd,             \* the frame of a forward(count) call in progress
    exc,             \* the exception the last call raised to the consumer
    served,          \* history: paths adopted as self.dataset by this iteration
    submitted,       \* history: shard indexes this iteration submitted to the pool
    nyield,          \* history: batches this iteration has yielded
    origin,          \* history: the file_index this iteration started from
    prior,           \* history: the call completed before this iteration
    args,            \* arguments.args: max_seq_length, max_predictions_per_seq
    item,            \* a BertSingleFileDataset.__getitem__ call: its row and result
    reader,          \* a BertSingleFileDataset(filepath, shuffle) call and its object
    environ          \* os.environ around set_environment_variables_for_nccl_backend

vars == <<files, batch_size, loop, shuffle, file_index, sample_index, pool,
          dataset, future_dataset, queue, gen, pos, batch, fwd, exc,
          served, submitted, nyield, origin, prior, args, item, reader, environ>>

\* ------------------------------------------------------------------ values
None == [kind |-> "None"]
Absent == [kind |-> "Absent"]    \* after `del self.dataset`: no such attribute
NoBatch == [path |-> 0, rows |-> <<>>]
NoForward == [active |-> FALSE, count |-> 0, idx |-> 0, fresh |-> FALSE]
Dead == {"none", "finished", "error"}

Min(a, b) == IF a <= b THEN a ELSE b

Range(n) == [i \in 1..n |-> i]

\* The files a caller can pass: paths 1..n in list order, each with its row count.
FileLists ==
    UNION {[1..n -> 0..MaxRows] : n \in 0..MaxFiles}

Shards(sizes) == [i \in 1..Len(sizes) |-> [path |-> i, rows |-> sizes[i]]]

\* ------------------------------------------------------- the single-file side
\* BertSingleFileDataset(filepath, shuffle): the rows of the file, in file order
\* or in the order of the permutation numpy drew.
BertSingleFileDataset(file, doShuffle, perm) ==
    [kind |-> "DataLoader", path |-> file.path,
     rows |-> IF doShuffle THEN perm ELSE Range(file.rows)]

\* torch's BatchSampler over a sequential sampler: rows are appended to a batch,
\* a full batch is emitted, and what is left over is emitted only if not drop_last.
RECURSIVE BatchSampler(_, _, _, _)
BatchSampler(rows, size, drop_last, acc) ==
    IF rows = <<>>
    THEN IF acc # <<>> /\ ~drop_last THEN <<acc>> ELSE <<>>
    ELSE LET a == Append(acc, Head(rows)) IN
         IF Len(a) = size
         THEN <<a>> \o BatchSampler(Tail(rows), size, drop_last, <<>>)
         ELSE BatchSampler(Tail(rows), size, drop_last, a)

\* A DataLoader built with drop_last = False.
DropLast_Off == FALSE

\* The DataLoader the factory builds: drop_last = True.
DropLast == TRUE

_singlefile_dataloader_factory(loader, size) ==
    LET groups == BatchSampler(loader.rows, size, DropLast, <<>>) IN
    [i \in 1..Len(groups) |-> [path |-> loader.path, rows |-> groups[i]]]

\* ------------------------------------------------------------ the loader
\* The loader object (and the generator frame and histories that travel with it)
\* as one record, so that each method is a function from record to record.
Self ==
    [file_index |-> file_index, sample_index |-> sample_index, pool |-> pool,
     dataset |-> dataset, future_dataset |-> future_dataset, queue |-> queue,
     gen |-> gen, pos |-> pos, batch |-> batch, fwd |-> fwd, exc |-> exc,
     served |-> served, submitted |-> submitted, nyield |-> nyield,
     origin |-> origin, prior |-> prior]

Store(s) ==
    /\ file_index' = s.file_index
    /\ sample_index' = s.sample_index
    /\ pool' = s.pool
    /\ dataset' = s.dataset
    /\ future_dataset' = s.future_dataset
    /\ queue' = s.queue
    /\ gen' = s.gen
    /\ pos' = s.pos
    /\ batch' = s.batch
    /\ fwd' = s.fwd
    /\ exc' = s.exc
    /\ served' = s.served
    /\ submitted' = s.submitted
    /\ nyield' = s.nyield
    /\ origin' = s.origin
    /\ prior' = s.prior
    /\ UNCHANGED <<files, batch_size, loop, shuffle, args, item, reader, environ>>

\* The caps that keep the counters finite.
Within(s) ==
    /\ s.file_index <= MaxFileIndex
    /\ s.sample_index <= MaxSampleIndex
    /\ Len(s.queue) <= MaxQueue

\* Rebinding or deleting self.future_dataset: the task it named stays in the
\* pool's queue, with nobody waiting for its result.
Unheld(q) == [i \in 1..Len(q) |-> [q[i] EXCEPT !.held = FALSE]]

_create_poolworker_if_not_exists(s) ==
    IF s.pool = "None"
    THEN [s EXCEPT !.pool = "ProcessPoolExecutor", !.queue = <<>>]
    ELSE s

_fetch_future_dataset_or_none(s, index) ==
    IF loop \/ index < Len(files)
    THEN IF Len(files) = 0
         THEN [s EXCEPT !.exc = "ZeroDivisionError"]
         ELSE LET next_file == files[(index % Len(files)) + 1] IN
              [s EXCEPT
                 !.future_dataset = [kind |-> "Future", index |-> index,
                                     path |-> next_file.path, state |-> "pending",
                                     result |-> None],
                 !.queue = Append(Unheld(s.queue),
                                  [index |-> index, path |-> next_file.path,
                                   held |-> TRUE]),
                 !.submitted = Append(s.submitted, index)]
    ELSE [s EXCEPT !.future_dataset = None, !.queue = Unheld(s.queue)]

_destroy_poolworker_if_exists(s) ==
    [s EXCEPT !.pool = "None", !.queue = <<>>]

\* `if self.dataset is not None` reads the attribute: AttributeError when a
\* `del self.dataset` of __iter__ was not followed by its assignment.
_destroy_datasets_if_exist(s) ==
    IF s.dataset = Absent
    THEN [s EXCEPT !.exc = "AttributeError"]
    ELSE [s EXCEPT !.dataset = None, !.future_dataset = None,
                   !.queue = Unheld(s.queue)]

\* reset that rewinds within the shard only.
reset_KeepsFile(s) ==
    LET s1 == [s EXCEPT !.sample_index = 0]
        s2 == _destroy_datasets_if_exist(s1)
    IN  IF s2.exc # "none" THEN s2 ELSE _destroy_poolworker_if_exists(s2)

reset(s) ==
    LET s1 == [s EXCEPT !.file_index = 0, !.sample_index = 0]
        s2 == _destroy_datasets_if_exist(s1)
    IN  IF s2.exc # "none" THEN s2 ELSE _destroy_poolworker_if_exists(s2)

\* ------------------------------------------------- the generator __iter__
\* Lines 65-66 and 77: the head of the while loop.  It ends the generator through
\* reset(), or deletes self.dataset and blocks in future_dataset.result().
\* The while loop left without the reset of line 77.
WhileHead_NoReset(s) ==
    IF s.future_dataset = None
    THEN [s EXCEPT !.gen = "finished"]
    ELSE IF s.dataset = Absent
         THEN [s EXCEPT !.exc = "AttributeError", !.gen = "error"]
         ELSE [s EXCEPT !.dataset = Absent, !.gen = "awaiting"]

WhileHead(s) ==
    IF s.future_dataset = None
    THEN LET r == reset(s) IN
         [r EXCEPT !.gen = IF r.exc = "none" THEN "finished" ELSE "error"]
    ELSE IF s.dataset = Absent
         THEN [s EXCEPT !.exc = "AttributeError", !.gen = "error"]
         ELSE [s EXCEPT !.dataset = Absent, !.gen = "awaiting"]

\* Lines 62-63: the first next() runs the body from its top.
IterBegin(s) ==
    LET s1 == _create_poolworker_if_not_exists(s)
        s2 == _fetch_future_dataset_or_none(s1, s1.file_index)
    IN  IF s2.exc # "none" THEN [s2 EXCEPT !.gen = "error"] ELSE WhileHead(s2)

\* Lines 70-71 and 74-75: yield the next batch of self.dataset, or leave the
\* for loop, step the cursor to the next shard and go round the while loop.
ForBatch(s) ==
    LET batches == _singlefile_dataloader_factory(s.dataset, batch_size) IN
    IF s.pos < Len(batches)
    THEN [s EXCEPT !.gen = "yielded", !.batch = batches[s.pos + 1],
                   !.nyield = s.nyield + 1]
    ELSE WhileHead([s EXCEPT !.file_index = s.file_index + 1,
                             !.sample_index = 0])

\* Line 68 requesting self.file_index instead of self.file_index + 1.
IterAdopt_SameShard(s) ==
    LET s1 == [s EXCEPT !.dataset = s.future_dataset.result,
                        !.served = Append(s.served, s.future_dataset.path)]
        s2 == _fetch_future_dataset_or_none(s1, s1.file_index)
    IN  ForBatch([s2 EXCEPT !.pos = 0])

\* Lines 67-68: result() returns; the shard is adopted and the next one requested.
IterAdopt(s) ==
    LET s1 == [s EXCEPT !.dataset = s.future_dataset.result,
                        !.served = Append(s.served, s.future_dataset.path)]
        s2 == _fetch_future_dataset_or_none(s1, s1.file_index + 1)
    IN  ForBatch([s2 EXCEPT !.pos = 0])

\* Line 72: the consumer asks for the next batch of a suspended generator.
IterResume(s) ==
    ForBatch([s EXCEPT !.sample_index = s.sample_index + batch_size,
                       !.pos = s.pos + 1])

\* The failed load caught and submitted again.
IterRaise_Retries(s) ==
    [_fetch_future_dataset_or_none(s, s.file_index) EXCEPT !.gen = "awaiting"]

\* Line 67: result() raises what the worker's load raised; the generator ends.
IterRaise(s) ==
    [s EXCEPT !.gen = "error", !.exc = "IOError"]

\* --------------------------------------------------------------- forward
\* forward ending in reset(): the cursor rewound.
ForwardTail_Resets(s) ==
    LET s2 == reset(s)
    IN  [s2 EXCEPT !.fwd = NoForward,
                   !.prior = [kind |-> IF s2.exc = "none" THEN "forward" ELSE "raised",
                              count |-> s.fwd.count, fresh |-> s.fwd.fresh]]

\* Lines 48-51: after the for loop of forward.
ForwardTail(s) ==
    LET s1 == _destroy_datasets_if_exist(s)
        s2 == IF s1.exc # "none" THEN s1 ELSE _destroy_poolworker_if_exists(s1)
    IN  [s2 EXCEPT !.fwd = NoForward,
                   !.prior = [kind |-> IF s2.exc = "none" THEN "forward" ELSE "raised",
                              count |-> s.fwd.count, fresh |-> s.fwd.fresh]]

\* Lines 45-47: forward's loop over enumerate(self), run until it blocks in
\* result(), breaks, runs out of batches or is ended by an exception.
RECURSIVE ForwardLoop(_)
ForwardLoop(s) ==
    CASE s.gen = "yielded" ->
           IF s.fwd.count <= s.fwd.idx
           THEN ForwardTail([s EXCEPT !.gen = "none"])
           ELSE ForwardLoop(IterResume([s EXCEPT !.fwd.idx = s.fwd.idx + 1]))
      [] s.gen = "finished" -> ForwardTail(s)
      [] s.gen = "error" ->
           [s EXCEPT !.fwd = NoForward,
                     !.prior = [kind |-> "raised", count |-> s.fwd.count,
                                fresh |-> s.fwd.fresh]]
      [] OTHER -> s

\* A generator that ended, or was dropped, is the call before the next iteration.
Ended(s) ==
    IF s.gen \in Dead THEN [s EXCEPT !.prior = [kind |-> "iter"]] ELSE s

\* What the caller of next() does with what next() gave: forward's loop, or the
\* consumer's own.
Driven(s) == IF s.fwd.active THEN ForwardLoop(s) ELSE Ended(s)

\* The loader as __init__ leaves it.
Fresh(s) ==
    /\ s.file_index = 0 /\ s.sample_index = 0
    /\ s.pool = "None" /\ s.dataset = None /\ s.future_dataset = None

\* A new generator: the histories of the iteration start over.
NewIteration(s) ==
    [s EXCEPT !.exc = "none", !.pos = 0, !.batch = NoBatch, !.served = <<>>,
              !.submitted = <<>>, !.nyield = 0,
              !.origin = s.file_index]

\* --------------------------------------------------------------- actions
\* iter(loader) and the first next(): the body runs from line 62.
Iterate ==
    /\ gen \in Dead /\ ~fwd.active
    /\ \E s \in {Driven(IterBegin(NewIteration(Self)))} : Within(s) /\ Store(s)

\* next() on a generator suspended at its yield.
NextBatch ==
    /\ gen = "yielded" /\ ~fwd.active
    /\ \E s \in {Driven(IterResume(Self))} : Within(s) /\ Store(s)

\* The awaited future has its result: the blocked next() goes on.
Await ==
    /\ gen = "awaiting" /\ future_dataset.state = "done"
    /\ \E s \in {Driven(IterAdopt(Self))} : Within(s) /\ Store(s)

\* The awaited future holds the worker's exception.
AwaitRaises ==
    /\ gen = "awaiting" /\ future_dataset.state = "failed"
    /\ \E s \in {Driven(IterRaise(Self))} : Store(s)

\* The consumer drops a generator suspended at its yield.
Abandon ==
    /\ gen = "yielded" /\ ~fwd.active
    /\ \E s \in {Ended([Self EXCEPT !.gen = "none"])} : Store(s)

Reset ==
    /\ gen \in Dead /\ ~fwd.active
    /\ \E r \in {reset([Self EXCEPT !.exc = "none"])} :
          \E s \in {[r EXCEPT !.gen = "none",
                               !.prior = [kind |-> "reset", deep |-> file_index > 0,
                                          raised |-> r.exc # "none"]]} : Store(s)

Forward(count) ==
    /\ gen \in Dead /\ ~fwd.active
    /\ \E s \in {ForwardLoop(IterBegin(
                     [NewIteration(Self) EXCEPT
                        !.fwd = [active |-> TRUE, count |-> count, idx |-> 0,
                                 fresh |-> Fresh(Self)]]))} :
          Within(s) /\ Store(s)

\* The orders numpy.random.shuffle can leave n rows in.
RowOrders(n) ==
    {p \in [1..n -> 1..n] : \A i, j \in 1..n : p[i] = p[j] => i = j}

\* The file a queued task names.
FileOf(task) ==
    CHOOSE f \in {files[i] : i \in 1..Len(files)} : f.path = task.path

\* The pool's worker finishes the load at the head of its queue; the future of
\* the task, if self.future_dataset still is that future, gets the outcome.
Complete(outcome, result) ==
    /\ future_dataset' =
         IF Head(queue).held
         THEN [future_dataset EXCEPT !.state = outcome, !.result = result]
         ELSE future_dataset
    /\ queue' = Tail(queue)
    /\ UNCHANGED <<files, batch_size, loop, shuffle, file_index, sample_index,
                   pool, dataset, gen, pos, batch, fwd, exc, served, submitted,
                   nyield, origin, prior, args, item, reader, environ>>

WorkerLoads ==
    /\ queue # <<>>
    /\ LET file == FileOf(Head(queue)) IN
       \E perm \in IF shuffle THEN RowOrders(file.rows) ELSE {Range(file.rows)} :
          Complete("done", BertSingleFileDataset(file, shuffle, perm))

\* The load raises (a missing or unreadable file): the future holds the exception.
WorkerFails ==
    /\ queue # <<>>
    /\ Complete("failed", None)


\* ------------------------------------------- BertSingleFileDataset.__getitem__
MaxSeqLength == 3      \* args.max_seq_length: 1..MaxSeqLength
MaxPredictions == 2    \* args.max_predictions_per_seq: 1..MaxPredictions
MaxMasked == 3         \* entries in a row of masked_lm_positions / masked_lm_ids
MaxTokenId == 1        \* a masked_lm_ids entry: 0..MaxTokenId

NoArgs == [max_seq_length |-> 0, max_predictions_per_seq |-> 0]
NoItem == [state |-> "none"]
NoReader == [state |-> "none"]
NoEnviron == [state |-> "none"]

\* torch.ones([n], dtype=torch.int64) * -1
Ones(n) == [q \in 1..n |-> -1]

\* v[:n] for n >= 0 taken over the whole of v.
Slice_Whole(v, n) == v

\* v[:n] for n >= 0: the first n entries, all of v when it has fewer.
Slice(v, n) == SubSeq(v, 1, Min(n, Len(v)))

\* (masked_lm_positions == 0).nonzero(): the places that hold 0, counted from 0.
Nonzero(masked_lm_positions) ==
    {i - 1 : i \in {j \in 1..Len(masked_lm_positions) : masked_lm_positions[j] = 0}}

_get_masked_token_count(masked_lm_positions, max_predictions_per_seq) ==
    LET padded_mask_indices == Nonzero(masked_lm_positions) IN
    IF padded_mask_indices # {}
    THEN CHOOSE i \in padded_mask_indices : \A j \in padded_mask_indices : i <= j
    ELSE max_predictions_per_seq

\* The values tensor[index] = values can leave at place q (counted from 1): the
\* value of an entry written there, any one of them when index repeats a place
\* (index_put_ without accumulate leaves that undefined), else what was there.
Written(tensor, index, values, q) ==
    LET at == {i \in 1..Len(index) : index[i] + 1 = q} IN
    IF at = {} THEN {tensor[q]} ELSE {values[i] : i \in at}

RECURSIVE IndexPutFrom(_, _, _, _)
IndexPutFrom(tensor, index, values, q) ==
    IF q > Len(tensor)
    THEN {<<>>}
    ELSE {<<c>> \o rest : c \in Written(tensor, index, values, q),
                          rest \in IndexPutFrom(tensor, index, values, q + 1)}

\* tensor[index] = values: IndexError when an index is out of the tensor, else
\* one of the tensors the assignment can leave.
IndexPut(tensor, index, values) ==
    IF \E i \in 1..Len(index) : index[i] >= Len(tensor)
    THEN {[exc |-> "IndexError", tensor |-> <<>>]}
    ELSE {[exc |-> "none", tensor |-> r] : r \in IndexPutFrom(tensor, index, values, 1)}

_build_masked_lm_labels(masked_lm_positions, masked_lm_ids, a) ==
    LET masked_token_count ==
            _get_masked_token_count(masked_lm_positions, a.max_predictions_per_seq)
    IN  {[exc |-> r.exc, masked_token_count |-> masked_token_count,
          masked_lm_labels |-> r.tensor] :
            r \in IndexPut(Ones(a.max_seq_length),
                           Slice(masked_lm_positions, masked_token_count),
                           Slice(masked_lm_ids, masked_token_count))}

\* The rows __getitem__ can be asked for: the two mask columns of one sample.
MaskedRows ==
    UNION {[masked_lm_positions : [1..n -> 0..(MaxSeqLength - 1)],
            masked_lm_ids : [1..n -> 0..MaxTokenId]] : n \in 0..MaxMasked}

\* __getitem__(index) on the row the index names.
GetItem ==
    /\ item.state = "called"
    /\ \E r \in _build_masked_lm_labels(item.masked_lm_positions,
                                        item.masked_lm_ids, args) :
          item' = [item EXCEPT
                     !.state = IF r.exc = "none" THEN "returned" ELSE "raised",
                     !.masked_token_count = r.masked_token_count,
                     !.masked_lm_labels = r.masked_lm_labels]
    /\ UNCHANGED <<files, batch_size, loop, shuffle, file_index, sample_index,
                   pool, dataset, future_dataset, queue, gen, pos, batch, fwd,
                   exc, served, submitted, nyield, origin, prior, args, reader,
                   environ>>


\* --------------------------------------------- BertSingleFileDataset.__init__
input_names ==
    <<"input_ids", "segment_ids", "input_mask", "masked_lm_positions",
      "masked_lm_ids", "next_sentence_labels">>

Names == {input_names[k] : k \in 1..Len(input_names)}

\* The hdf5 files there can be: a row count for each of the six datasets.  The
\* entry of a dataset at row k is written k, the row of the file it belongs to.
Hdf5Files == [Names -> 0..MaxRows]

\* hdf5_data[name][:] for every name.
ReadColumns(hdf5_data) == [name \in Names |-> Range(hdf5_data[name])]

\* column[indices] can be taken: no index is past the end of the column.
Indexable(column, indices) ==
    \A i \in 1..Len(indices) : indices[i] <= Len(column)

\* column[indices], numpy's indexing by an index array.
Take(column, indices) == [i \in 1..Len(indices) |-> column[indices[i]]]

\* Lines 137-138 done for the first dataset only.
Shuffled_FirstOnly(bulk_data, indices) ==
    [name \in Names |->
        IF name = input_names[1] THEN Take(bulk_data[name], indices)
                                 ELSE bulk_data[name]]

\* Lines 137-138: every dataset is indexed by the one array of indices.
Shuffled(bulk_data, indices) ==
    [name \in Names |-> Take(bulk_data[name], indices)]

\* __init__(hdf5_filepath, shuffle) with indices the order numpy.random.shuffle
\* left numpy.arange(len(input_ids)) in.  It raises when a dataset cannot be
\* indexed, and the object is not constructed.
BertSingleFileDataset__init__(hdf5_data, doShuffle, indices) ==
    LET bulk_data == ReadColumns(hdf5_data) IN
    IF ~doShuffle
    THEN [exc |-> "none", bulk_data |-> bulk_data]
    ELSE IF \A name \in Names : Indexable(bulk_data[name], indices)
         THEN [exc |-> "none", bulk_data |-> Shuffled(bulk_data, indices)]
         ELSE [exc |-> "IndexError", bulk_data |-> [name \in Names |-> <<>>]]

\* __len__
__len__(bulk_data) == Len(bulk_data["input_ids"])

\* BertSingleFileDataset(reader.hdf5_data, reader.shuffle)
OpenShard ==
    /\ reader.state = "called"
    /\ \E indices \in IF reader.shuffle
                      THEN RowOrders(reader.hdf5_data["input_ids"])
                      ELSE {<<>>} :
          \E r \in {BertSingleFileDataset__init__(reader.hdf5_data,
                                                  reader.shuffle, indices)} :
             reader' = [reader EXCEPT
                          !.state = IF r.exc = "none" THEN "built" ELSE "raised",
                          !.indices = indices,
                          !.bulk_data = r.bulk_data]
    /\ UNCHANGED <<files, batch_size, loop, shuffle, file_index, sample_index,
                   pool, dataset, future_dataset, queue, gen, pos, batch, fwd,
                   exc, served, submitted, nyield, origin, prior, args, item,
                   environ>>


\* ------------------------- azureml_adapter.set_environment_variables_for_nccl_backend
MaxText == 3           \* characters in the text of AZ_BATCH_MASTER_NODE: 0..MaxText
MaxPort == 10          \* the master_port argument: 0..MaxPort, or the default

\* A str is the sequence of its characters.  os.environ is the function from the
\* names that are set to their values.
master_port_default == 6105

FixedPort == <<"5", "4", "9", "6", "5">>

ExclusionPattern == <<"^", "d", "o", "c", "k", "e", "r", "0", ",", "l", "o">>

Digits == <<"0", "1", "2", "3", "4", "5", "6", "7", "8", "9">>

\* str(n) of an int
RECURSIVE str(_)
str(n) ==
    IF n < 0 THEN <<"-">> \o str(0 - n)
    ELSE IF n < 10 THEN <<Digits[n + 1]>>
    ELSE str(n \div 10) \o <<Digits[(n % 10) + 1]>>

\* s.split(sep) for a one-character sep
RECURSIVE split(_, _)
split(s, sep) ==
    LET at == {i \in 1..Len(s) : s[i] = sep} IN
    IF at = {}
    THEN <<s>>
    ELSE LET i == CHOOSE i \in at : \A j \in at : i <= j IN
         <<SubSeq(s, 1, i - 1)>> \o split(SubSeq(s, i + 1, Len(s)), sep)

\* os.environ[name] = value
SetItem(e, name, value) ==
    [x \in (DOMAIN e) \cup {name} |-> IF x = name THEN value ELSE e[x]]

Ok(e) == [exc |-> "none", os_environ |-> e]

\* os.environ[name] of a name that is not set
KeyError(e) == [exc |-> "KeyError", os_environ |-> e]

\* os.environ[to] = os.environ[from], writing the empty text when from is not set.
CopyVar_WritesAnyway(e, to, from) ==
    IF from \in DOMAIN e THEN Ok(SetItem(e, to, e[from]))
                         ELSE KeyError(SetItem(e, to, <<>>))

\* os.environ[to] = os.environ[from]
CopyVar(e, to, from) ==
    IF from \in DOMAIN e THEN Ok(SetItem(e, to, e[from])) ELSE KeyError(e)

\* os.environ[name] = value, whatever is there.
SetDefault_Overwrites(e, name, value) == Ok(SetItem(e, name, value))

\* if name not in os.environ: os.environ[name] = value
SetDefault(e, name, value) ==
    IF name \in DOMAIN e THEN Ok(e) ELSE Ok(SetItem(e, name, value))

\* Lines 9-10: the master address is what stands before the first ':'.
MasterAddrFromNode(e) ==
    IF "AZ_BATCH_MASTER_NODE" \in DOMAIN e
    THEN LET master_node_params == split(e["AZ_BATCH_MASTER_NODE"], ":") IN
         Ok(SetItem(e, "MASTER_ADDR", master_node_params[1]))
    ELSE KeyError(e)

\* Line 18: the print that reads the variable before it is overwritten.
PrintOriginal(e) ==
    IF "NCCL_SOCKET_IFNAME" \in DOMAIN e THEN Ok(e) ELSE KeyError(e)

\* A statement is run only when none before it raised.
set_environment_variables_for_nccl_backend(e, single_node, master_port) ==
    LET rank == CopyVar(e, "RANK", "OMPI_COMM_WORLD_RANK")
        size == IF rank.exc # "none" THEN rank
                ELSE CopyVar(rank.os_environ, "WORLD_SIZE", "OMPI_COMM_WORLD_SIZE")
        addr == IF size.exc # "none" THEN size
                ELSE IF ~single_node
                     THEN MasterAddrFromNode(size.os_environ)
                     ELSE CopyVar(size.os_environ, "MASTER_ADDR",
                                  "AZ_BATCHAI_MPI_MASTER_NODE")
        port == IF addr.exc # "none" THEN addr
                ELSE IF ~single_node
                     THEN SetDefault(addr.os_environ, "MASTER_PORT", str(master_port))
                     ELSE Ok(SetItem(addr.os_environ, "MASTER_PORT", FixedPort))
        read == IF port.exc # "none" THEN port ELSE PrintOriginal(port.os_environ)
    IN  IF read.exc # "none" THEN read
        ELSE Ok(SetItem(read.os_environ, "NCCL_SOCKET_IFNAME", ExclusionPattern))

\* The names the function reads or writes.
EnvNames ==
    {"OMPI_COMM_WORLD_RANK", "OMPI_COMM_WORLD_SIZE", "AZ_BATCH_MASTER_NODE",
     "AZ_BATCHAI_MPI_MASTER_NODE", "MASTER_PORT", "NCCL_SOCKET_IFNAME",
     "RANK", "WORLD_SIZE", "MASTER_ADDR"}

\* The texts AZ_BATCH_MASTER_NODE can hold: of host characters and separators.
Texts == UNION {[1..n -> {"h", ":"}] : n \in 0..MaxText}

\* What a variable holds before the call when it is set, node being the text
\* of AZ_BATCH_MASTER_NODE.
Given(name, node) ==
    CASE name = "AZ_BATCH_MASTER_NODE" -> node
      [] name = "OMPI_COMM_WORLD_RANK" -> <<"1">>
      [] name = "OMPI_COMM_WORLD_SIZE" -> <<"2">>
      [] name = "AZ_BATCHAI_MPI_MASTER_NODE" -> <<"n">>
      [] name = "MASTER_PORT" -> <<"8", "0">>
      [] name = "NCCL_SOCKET_IFNAME" -> <<"e", "t", "h">>
      [] OTHER -> <<"o", "l", "d">>

\* The environments the process can be started in.
Environs ==
    {[name \in set |-> Given(name, node)] :
        set \in SUBSET EnvNames, node \in Texts}

\* set_environment_variables_for_nccl_backend(single_node, master_port)
Configure ==
    /\ environ.state = "called"
    /\ \E r \in {set_environment_variables_for_nccl_backend(
                    environ.os_environ, environ.single_node, environ.master_port)} :
          environ' = [environ EXCEPT
                        !.state = IF r.exc = "none" THEN "returned" ELSE "raised",
                        !.os_environ = r.os_environ]
    /\ UNCHANGED <<files, batch_size, loop, shuffle, file_index, sample_index,
                   pool, dataset, future_dataset, queue, gen, pos, batch, fwd,
                   exc, served, submitted, nyield, origin, prior, args, item,
                   reader>>


\* ------------------------------------------------------ what is expected
\* Full batches a shard of the list holds.
NB(i) == files[i].rows \div batch_size

RECURSIVE SumNB(_)
SumNB(paths) == IF paths = <<>> THEN 0 ELSE NB(Head(paths)) + SumNB(Tail(paths))

AnyBatches == \E i \in 1..Len(files) : NB(i) > 0

\* The index-th shard index of an iteration that started at file_index `from`.
InOrder(seq, from) == \A k \in 1..Len(seq) : seq[k] = from + k - 1

\* ---------------------------------------------------------------- C1
\* C1: a complete iteration of a non-looping loader over a single shard of N
\* samples yields exactly N div B batches, each of exactly B samples, taken in
\* row order from the front of the shard; the trailing N mod B samples are
\* never yielded.
C1_SingleShardBatches ==
    (Len(files) = 1 /\ ~loop) =>
        LET N == files[1].rows
            B == batch_size
        IN  /\ gen = "yielded" =>
                 /\ Len(batch.rows) = B
                 /\ nyield * B <= (N \div B) * B
                 /\ batch.rows = SubSeq(dataset.rows, (nyield - 1) * B + 1, nyield * B)
            /\ gen = "finished" => nyield = N \div B

\* A complete iteration over a shard that has a partial trailing batch.
C1_Witness ==
    /\ Len(files) = 1 /\ ~loop /\ gen = "finished" /\ prior.kind = "iter"
    /\ files[1].rows % batch_size # 0

\* ---------------------------------------------------------------- C2
Outstanding == Len(queue)

Resident ==
    (IF dataset.kind = "DataLoader" THEN 1 ELSE 0)
    + (IF future_dataset.kind = "Future" /\ future_dataset.state = "done" THEN 1 ELSE 0)
    + (IF queue # <<>> THEN 1 ELSE 0)

\* C2: in every state the consumer reaches by starting, drawing from and
\* abandoning iterations, forward and reset (no call having raised), at most one
\* shard load submitted to the pool's worker is outstanding and at most two
\* shard datasets are resident.
C2_SinglePrefetch == exc = "none" => (Outstanding <= 1 /\ Resident <= 2)

RECURSIVE StreamBatch(_, _)
StreamBatch(i, n) ==
    IF ~AnyBatches \/ (~loop /\ i >= Len(files))
    THEN NoBatch
    ELSE LET f == (i % Len(files)) + 1 IN
         IF n < NB(f)
         THEN [path |-> files[f].path,
               rows |-> [j \in 1..batch_size |-> n * batch_size + j]]
         ELSE StreamBatch(i + 1, n - NB(f))

\* C4: after forward(count) on a fresh loader the first batch of the next
\* iteration is the batch that follows the count batches forward passed over in
\* an uninterrupted iteration (shuffle disabled).
C4_ForwardResumes ==
    (/\ prior.kind = "forward" /\ prior.fresh /\ ~shuffle
     /\ gen = "yielded" /\ nyield = 1
     /\ StreamBatch(0, prior.count) # NoBatch)
    => batch = StreamBatch(0, prior.count)

\* ---------------------------------------------------------------- C5
\* forward has just returned to its caller.
Forwarded == prior.kind = "forward" /\ gen \in Dead

\* Batches an iteration from shard index `from` can yield before it runs out.
RECURSIVE Available(_)
Available(from) ==
    IF from >= Len(files) THEN 0 ELSE NB(from + 1) + Available(from + 1)

\* C5: forward(count) draws exactly count batches when that many are available
\* (all there are otherwise); forward(0) draws none.
C5_ForwardDraws ==
    Forwarded =>
        nyield = IF loop THEN prior.count ELSE Min(prior.count, Available(origin))

\* ---------------------------------------------------------------- C6
\* The cursor of a generator that has handed out n batches from the start of
\* shard index i and goes on to its next yield, with no reset at the list's end.
RECURSIVE CursorAfter(_, _)
CursorAfter(i, n) ==
    IF ~AnyBatches \/ (~loop /\ i >= Len(files))
    THEN <<Min(i, Len(files)), 0>>
    ELSE LET f == (i % Len(files)) + 1 IN
         IF n < NB(f)
         THEN <<i, n * batch_size>>
         ELSE CursorAfter(i + 1, n - NB(f))

TornDown == pool = "None" /\ dataset = None /\ future_dataset = None /\ queue = <<>>

\* C6 as stated: when forward(count) returns the loader is torn down and the
\* cursor, never reset, is the position count batches into the stream; it is
\* (0,0) only if nothing was advanced.  (The case of a list of exactly count
\* batches, where the outcome turns on how many batches forward draws, is left
\* to C5.)
C6_ForwardKeepsCursor ==
    Forwarded =>
        /\ TornDown
        /\ (prior.fresh /\ (loop \/ prior.count # Available(0))) =>
             \/ <<file_index, sample_index>> = CursorAfter(0, prior.count)
             \/ /\ <<file_index, sample_index>> = <<0, 0>>
                /\ (prior.count = 0 \/ ~AnyBatches)

\* The non-looping list holds no more than n batches: the iteration inside
\* forward(n) runs out and ends through its own reset.
RunsOut(n) == ~loop /\ Available(0) <= n

\* C6 amended: when forward(count) returns the loader is torn down; forward
\* itself does not reset the cursor, which on a fresh loader is the position
\* count batches into the stream, unless the non-looping list held at most
\* count batches: then the iteration's own reset has left it at (0,0).
C6_ForwardCursor ==
    Forwarded =>
        /\ TornDown
        /\ prior.fresh =>
             <<file_index, sample_index>> =
                IF RunsOut(prior.count) THEN <<0, 0>> ELSE CursorAfter(0, prior.count)

\* forward on a fresh loader has passed a whole shard and stopped inside the next.
C6_Witness ==
    /\ Forwarded /\ prior.fresh /\ ~RunsOut(prior.count)
    /\ file_index = 1 /\ sample_index > 0 /\ TornDown

\* ---------------------------------------------------------------- C7
\* C7: reset() after any amount of consumption leaves the cursor at (0,0); the
\* next iteration serves shard index 0 from its first batch, which with shuffle
\* disabled is the first batch of a fresh loader.
C7_ResetRestarts ==
    (prior.kind = "reset" /\ ~prior.raised) =>
        /\ gen \in Dead => file_index = 0 /\ sample_index = 0
        /\ gen \notin Dead =>
             /\ origin = 0
             /\ Len(served) >= 1 => served[1] = files[1].path
             /\ (gen = "yielded" /\ Len(served) = 1 /\ nyield = 1) =>
                   /\ pos = 0
                   /\ batch.rows = SubSeq(dataset.rows, 1, batch_size)
             /\ (gen = "yielded" /\ nyield = 1 /\ ~shuffle) =>
                   batch = StreamBatch(0, 0)

\* The first batch after a reset() that was called with the cursor past shard 0.
C7_Witness ==
    /\ prior.kind = "reset" /\ ~prior.raised /\ prior.deep /\ ~shuffle
    /\ gen = "yielded" /\ nyield = 1 /\ batch = StreamBatch(0, 0)

\* ---------------------------------------------------------------- C8
\* C8: reset() returns normally in every reachable state, and leaves cursor
\* (0,0), no pool, no current dataset and no pending prefetch.
C8_ResetAlwaysSucceeds ==
    (prior.kind = "reset" /\ gen \in Dead) =>
        /\ ~prior.raised /\ exc = "none"
        /\ file_index = 0 /\ sample_index = 0
        /\ TornDown

\* ---------------------------------------------------------------- C9
\* C9: with loop = false, every load completing and the consumer drawing on, an
\* iteration ends after the last batch of the last shard, with the loader as
\* constructed (cursor (0,0), no pool, no dataset, no prefetch), so that the
\* next iteration starts at shard 0; with loop = true and a non-empty list an
\* iteration never ends.
C9_Exhaustion ==
    /\ [](gen = "finished" =>
            /\ ~loop
            /\ Fresh(Self) /\ queue = <<>>
            /\ Len(served) = Len(files)
            /\ served # <<>> => pos = NB(served[Len(served)])
            /\ nyield = Available(0))
    /\ [](origin = 0 /\ (served # <<>> => served[1] = files[1].path))
    /\ []((loop /\ Len(files) > 0) => gen # "finished")
    /\ ((~loop /\ gen \in {"awaiting", "yielded"}) ~> (gen = "finished"))

\* A non-looping iteration over two shards has run to its end.
C9_Witness ==
    /\ ~loop /\ Len(files) = 2 /\ gen = "finished"
    /\ Len(served) = 2 /\ nyield >= 2 /\ Fresh(Self)

\* --------------------------------------------------------------- C10
\* C10: a failed load of shard k reaches the consumer exactly where the iteration
\* awaits shard k: every batch of the shards before k has been yielded and none
\* of shard k; shard k was submitted once and nothing after it; no load is left
\* queued; the generator has ended with the error.  Until then the consumer is
\* handed batches without error.
C10_LoadFailure ==
    /\ InOrder(submitted, origin)
    /\ gen = "yielded" => exc = "none"
    /\ (gen = "error" /\ exc = "IOError") =>
          /\ future_dataset.kind = "Future"
          /\ future_dataset.state = "failed"
          /\ future_dataset.index = file_index
          /\ Len(served) = file_index - origin
          /\ Len(submitted) = file_index - origin + 1
          /\ nyield = SumNB(served)
          /\ served # <<>> => pos = NB(served[Len(served)])
          /\ queue = <<>>
          /\ dataset = Absent

\* The load of the second shard failed after the first shard was served in full.
C10_Witness ==
    /\ gen = "error" /\ exc = "IOError" /\ ~fwd.active
    /\ file_index = 1 /\ Len(served) = 1 /\ nyield >= 1

\* ------------------------------------------------------------------ the cursor
\* The samples of the shard being served.
ServedSamples == Len(dataset.rows)

CursorWithinShard ==
    /\ sample_index >= 0
    /\ sample_index % batch_size = 0
    /\ dataset.kind = "DataLoader" => sample_index <= ServedSamples
    /\ ~loop => file_index \in 0..Len(files)

\* C18: in every state a single consumer can reach, sample_index is a
\* non-negative multiple of batch_size that does not exceed the sample count of
\* the shard being served, it is 0 whenever file_index has just advanced, and
\* with loop false file_index stays within 0..len(files).
C18_CursorInvariant ==
    /\ []CursorWithinShard
    /\ [][file_index' # file_index => sample_index' = 0]_vars


\* ---------------------------------------------------- the label reconstructor
\* What the count is said to be: the place of the first 0 among the first
\* max_predictions entries, max_predictions when there is none.
FirstZeroWithin(v, m) ==
    LET zeros == {i \in 0..(Min(m, Len(v)) - 1) : v[i + 1] = 0} IN
    IF zeros # {} THEN CHOOSE i \in zeros : \A j \in zeros : i <= j ELSE m

\* C11: for every masked_positions vector, of any length, masked_token_count is
\* the index of the first zero when a zero occurs within the first
\* max_predictions entries and max_predictions otherwise, so it never exceeds
\* max_predictions.
C11_MaskedTokenCount ==
    item.state \in {"returned", "raised"} =>
        /\ item.masked_token_count =
             FirstZeroWithin(item.masked_lm_positions, args.max_predictions_per_seq)
        /\ item.masked_token_count <= args.max_predictions_per_seq

\* The entries of the row the label is built from: those before the count.
Counted == 1..Min(item.masked_token_count, Len(item.masked_lm_positions))

InRange ==
    \A i \in 1..Len(item.masked_lm_positions) :
        item.masked_lm_positions[i] < args.max_seq_length

AllMinusOne ==
    \A q \in 1..Len(item.masked_lm_labels) : item.masked_lm_labels[q] = -1

\* C12: for every sample whose masked positions are all below max_seq_length the
\* label has length max_seq_length, holds masked_values[i] at masked_positions[i]
\* for every i below masked_token_count and -1 elsewhere; a sample whose first
\* masked position is 0 gets a label that is -1 everywhere.  Stated over the rows
\* no longer than max_predictions, whose count is the one C11 states.
C12_DenseLabel ==
    (/\ item.state \in {"returned", "raised"} /\ InRange
     /\ Len(item.masked_lm_positions) <= args.max_predictions_per_seq) =>
        /\ item.state = "returned"
        /\ Len(item.masked_lm_labels) = args.max_seq_length
        /\ \A i \in Counted :
              item.masked_lm_labels[item.masked_lm_positions[i] + 1]
                  = item.masked_lm_ids[i]
        /\ \A q \in 1..args.max_seq_length :
              (\A i \in Counted : item.masked_lm_positions[i] + 1 # q)
                  => item.masked_lm_labels[q] = -1
        /\ (Len(item.masked_lm_positions) > 0 /\ item.masked_lm_positions[1] = 0)
              => AllMinusOne

\* C12 as the code has it: a position listed once among the counted entries
\* holds its value; a position listed more than once holds one of the values
\* listed for it.
C12_DenseLabelWritten ==
    (item.state \in {"returned", "raised"} /\ InRange) =>
        /\ item.state = "returned"
        /\ Len(item.masked_lm_labels) = args.max_seq_length
        /\ \A i \in Counted :
              item.masked_lm_labels[item.masked_lm_positions[i] + 1]
                  \in {item.masked_lm_ids[j] :
                         j \in {k \in Counted : item.masked_lm_positions[k]
                                                  = item.masked_lm_positions[i]}}
        /\ \A q \in 1..args.max_seq_length :
              (\A i \in Counted : item.masked_lm_positions[i] + 1 # q)
                  => item.masked_lm_labels[q] = -1
        /\ (Len(item.masked_lm_positions) > 0 /\ item.masked_lm_positions[1] = 0)
              => AllMinusOne

\* A label with a written place and an untouched one, built from a row that is
\* padded after its first entry.
C12_Witness ==
    /\ item.state = "returned" /\ InRange
    /\ item.masked_token_count = 1
    /\ Len(item.masked_lm_positions) >= 2
    /\ item.masked_lm_ids[2] # item.masked_lm_ids[1]
    /\ item.masked_lm_labels[item.masked_lm_positions[1] + 1] = item.masked_lm_ids[1]
    /\ \E q \in 1..args.max_seq_length : item.masked_lm_labels[q] = -1


\* ------------------------------------------------------------ the shard reader
EqualColumns ==
    \A a, b \in Names : reader.hdf5_data[a] = reader.hdf5_data[b]

\* C13: opening a shard whose six columns do not all have the same row count
\* fails with an error at open time, with shuffle enabled and disabled; no
\* reader is constructed over columns of unequal length.
C13_UnequalColumnsRejected ==
    (reader.state \in {"built", "raised"} /\ ~EqualColumns) =>
        reader.state = "raised"

\* The rows of the file: those every one of the six datasets has.
FileRows ==
    {k \in 1..MaxRows : \A name \in Names : k <= reader.hdf5_data[name]}

\* C17: when a shard is opened with shuffle enabled, for every permutation drawn
\* and every row i the six field values of row i come from one and the same row
\* of the file (the row the permutation names), and the shuffled shard holds
\* every row of the file exactly once.
C17_ShuffleKeepsRows ==
    (reader.state = "built" /\ reader.shuffle) =>
        /\ \A name \in Names :
              Len(reader.bulk_data[name]) = __len__(reader.bulk_data)
        /\ \A i \in 1..__len__(reader.bulk_data) : \A name \in Names :
              reader.bulk_data[name][i] = reader.indices[i]
        /\ \A k \in FileRows : \A name \in Names :
              Cardinality({i \in 1..__len__(reader.bulk_data) :
                              reader.bulk_data[name][i] = k}) = 1

\* A shard of equal columns opened with its two rows swapped.
C17_Witness ==
    /\ reader.state = "built" /\ reader.shuffle /\ EqualColumns
    /\ reader.indices = <<2, 1>>
    /\ reader.bulk_data["masked_lm_ids"] = <<2, 1>>


\* ------------------------------------------------------ the environment adapter
Before == environ.before
After == environ.os_environ
Called == environ.state \in {"returned", "raised"}

\* The number a text of decimal digits stands for.
RECURSIVE IntOf(_)
IntOf(text) ==
    IF text = <<>> THEN 0
    ELSE 10 * IntOf(SubSeq(text, 1, Len(text) - 1))
         + ((CHOOSE d \in 1..10 : Digits[d] = text[Len(text)]) - 1)

\* text is how a non-negative number n is written: digits only, no leading
\* zero, standing for n.
Renders(text, n) ==
    /\ text # <<>>
    /\ \A i \in 1..Len(text) : \E d \in 1..10 : Digits[d] = text[i]
    /\ (Len(text) > 1 => text[1] # "0")
    /\ IntOf(text) = n

\* C14: whenever configure succeeds, MASTER_PORT is: unchanged when single_node
\* is false and it was already set; the master_port argument rendered as text
\* when single_node is false and it was unset; the fixed port 54965 when
\* single_node is true, whatever it was before.
C14_MasterPort ==
    environ.state = "returned" =>
        /\ "MASTER_PORT" \in DOMAIN After
        /\ (~environ.single_node /\ "MASTER_PORT" \in DOMAIN Before)
              => After["MASTER_PORT"] = Before["MASTER_PORT"]
        /\ (~environ.single_node /\ "MASTER_PORT" \notin DOMAIN Before)
              => Renders(After["MASTER_PORT"], environ.master_port)
        /\ environ.single_node
              => (Renders(After["MASTER_PORT"], 54965) /\ Len(After["MASTER_PORT"]) = 5)

\* The default port was written, as text, over no earlier value.
C14_Witness ==
    /\ environ.state = "returned" /\ ~environ.single_node
    /\ "MASTER_PORT" \notin DOMAIN Before
    /\ environ.master_port = 6105
    /\ After["MASTER_PORT"] = <<"6", "1", "0", "5">>

\* The value of a variable, or that it is not set, is the same in both.
Same(a, b, name) ==
    /\ name \in DOMAIN a <=> name \in DOMAIN b
    /\ name \in DOMAIN a => a[name] = b[name]

HasSeparator(text) == \E i \in 1..Len(text) : text[i] = ":"

\* The launcher variable the master address is taken from.
MasterNodeName ==
    IF environ.single_node THEN "AZ_BATCHAI_MPI_MASTER_NODE"
                           ELSE "AZ_BATCH_MASTER_NODE"

\* The launcher variables configure needs, in the order it reads them.
Needed ==
    <<"OMPI_COMM_WORLD_RANK", "OMPI_COMM_WORLD_SIZE", MasterNodeName,
      "NCCL_SOCKET_IFNAME">>

\* C15: with single_node false, when the master-node descriptor holds a value
\* without a ":" separator, configure fails with a configuration error and does
\* not set the master address from that value.  Stated over the environments
\* in which no variable configure reads is missing.
C15_MalformedNodeRejected ==
    (/\ Called /\ ~environ.single_node
     /\ \A k \in 1..Len(Needed) : Needed[k] \in DOMAIN Before
     /\ ~HasSeparator(Before["AZ_BATCH_MASTER_NODE"])) =>
        /\ environ.state = "raised"
        /\ Same(After, Before, "MASTER_ADDR")

\* C16: for every initial environment that provides the rank, world-size and
\* master-node variables, configure ends with NCCL_SOCKET_IFNAME equal to the
\* fixed pattern '^docker0,lo', whether the variable was set to another value
\* before or not set at all.
C16_InterfacePattern ==
    (/\ Called
     /\ {"OMPI_COMM_WORLD_RANK", "OMPI_COMM_WORLD_SIZE", MasterNodeName}
            \subseteq DOMAIN Before) =>
        /\ environ.state = "returned"
        /\ "NCCL_SOCKET_IFNAME" \in DOMAIN After
        /\ After["NCCL_SOCKET_IFNAME"] = ExclusionPattern

\* C19: when configure fails because a launcher variable it needs is absent, the
\* process environment is exactly as it was before the call.
C19_FailureWritesNothing ==
    environ.state = "raised" => After = Before

\* The variables written by the time the k-th needed variable is read.
WrittenBefore(k) ==
    CASE k = 1 -> {}
      [] k = 2 -> {"RANK"}
      [] k = 3 -> {"RANK", "WORLD_SIZE"}
      [] k = 4 -> {"RANK", "WORLD_SIZE", "MASTER_ADDR", "MASTER_PORT"}

\* C19 as the code has it: configure fails exactly at the first needed variable
\* that is absent; every variable assigned before that read holds its new value
\* (RANK and WORLD_SIZE the launcher's rank and size, MASTER_ADDR and
\* MASTER_PORT set), every other variable is as it was, and
\* NCCL_SOCKET_IFNAME is never written by a failing call.
C19_FailureKeepsEarlierWrites ==
    environ.state = "raised" =>
        \E k \in 1..4 :
            /\ Needed[k] \notin DOMAIN Before
            /\ \A j \in 1..(k - 1) : Needed[j] \in DOMAIN Before
            /\ \A name \in (EnvNames \ WrittenBefore(k)) : Same(After, Before, name)
            /\ DOMAIN After = (DOMAIN Before) \cup WrittenBefore(k)
            /\ k >= 2 => After["RANK"] = Before["OMPI_COMM_WORLD_RANK"]
            /\ k >= 3 => After["WORLD_SIZE"] = Before["OMPI_COMM_WORLD_SIZE"]

\* The call failed on the missing world size after it had overwritten RANK.
C19_Witness ==
    /\ environ.state = "raised"
    /\ "OMPI_COMM_WORLD_SIZE" \notin DOMAIN Before
    /\ "OMPI_COMM_WORLD_RANK" \in DOMAIN Before
    /\ "RANK" \in DOMAIN Before
    /\ After["RANK"] = Before["OMPI_COMM_WORLD_RANK"]
    /\ After["RANK"] # Before["RANK"]


\* __init__.  files is the list as __init__ leaves it (after random.shuffle when
\* shuffle): paths are numbered by their place in that list.
LoaderInit ==
    /\ \E sizes \in FileLists : files = Shards(sizes)
    /\ batch_size \in 1..MaxBatch
    /\ loop \in BOOLEAN
    /\ shuffle \in BOOLEAN
    /\ file_index = 0
    /\ sample_index = 0
    /\ pool = "None"
    /\ dataset = None
    /\ future_dataset = None
    /\ queue = <<>>
    /\ gen = "none"
    /\ pos = 0
    /\ batch = NoBatch
    /\ fwd = NoForward
    /\ exc = "none"
    /\ served = <<>>
    /\ submitted = <<>>
    /\ nyield = 0
    /\ origin = 0
    /\ prior = [kind |-> "init"]

\* The loader alone: nothing else of the two files is in use.
Init ==
    /\ LoaderInit
    /\ args = NoArgs
    /\ item = NoItem
    /\ reader = NoReader
    /\ environ = NoEnviron

Next ==
    \/ Iterate
    \/ NextBatch
    \/ Await
    \/ AwaitRaises
    \/ Abandon
    \/ Reset
    \/ \E count \in 0..MaxCount : Forward(count)
    \/ WorkerLoads
    \/ WorkerFails

Spec == Init /\ [][Next]_vars

\* The consumer only iterates and keeps drawing; every load completes.  The
\* worker process runs, a next() whose future is done returns, and the consumer
\* asks for the next batch.
LiveNext ==
    \/ Iterate
    \/ NextBatch
    \/ Await
    \/ WorkerLoads

LiveSpec ==
    /\ Init /\ [][LiveNext]_vars
    /\ WF_vars(NextBatch) /\ WF_vars(Await) /\ WF_vars(WorkerLoads)

\* A loader that was built over no files and is never used.
LoaderUnused ==
    /\ LoaderInit
    /\ files = <<>> /\ batch_size = 1 /\ ~loop /\ ~shuffle

\* One __getitem__ call under some arguments, on some row.
LabelInit ==
    /\ LoaderUnused
    /\ args \in [max_seq_length : 1..MaxSeqLength,
                 max_predictions_per_seq : 1..MaxPredictions]
    /\ \E row \in MaskedRows :
          item = [state |-> "called",
                  masked_lm_positions |-> row.masked_lm_positions,
                  masked_lm_ids |-> row.masked_lm_ids,
                  masked_token_count |-> 0, masked_lm_labels |-> <<>>]
    /\ reader = NoReader
    /\ environ = NoEnviron

LabelNext == GetItem

LabelSpec == LabelInit /\ [][LabelNext]_vars

\* One BertSingleFileDataset(filepath, shuffle) call on some file.
ShardInit ==
    /\ LoaderUnused
    /\ args = NoArgs
    /\ item = NoItem
    /\ \E f \in Hdf5Files, s \in BOOLEAN :
          reader = [state |-> "called", hdf5_data |-> f, shuffle |-> s,
                    indices |-> <<>>, bulk_data |-> [name \in Names |-> <<>>]]
    /\ environ = NoEnviron

ShardNext == OpenShard

ShardSpec == ShardInit /\ [][ShardNext]_vars

\* One call of set_environment_variables_for_nccl_backend in some environment.
\* before is the environment the call started in.
EnvInit ==
    /\ LoaderUnused
    /\ args = NoArgs
    /\ item = NoItem
    /\ reader = NoReader
    /\ \E e \in Environs, single_node \in BOOLEAN,
          master_port \in (0..MaxPort) \cup {master_port_default} :
          environ = [state |-> "called", single_node |-> single_node,
                     master_port |-> master_port, os_environ |-> e, before |-> e]

EnvNext == Configure

EnvSpec == EnvInit /\ [][EnvNext]_vars
====
